---- MODULE Spec2Model ----
(***************************************************************************)
(* The file-upload hook of expo-app (sources/hooks/useFileUpload.ts) and   *)
(* the retry/remove affordances of sources/components/FileAttachment.tsx,  *)
(* as a state machine.                                                     *)
(*                                                                         *)
(* The hook's React state (files, isUploading) is the Store.  Every        *)
(* setFiles call of the hook is a functional update (prev => ...), so the  *)
(* updates apply in program order and each is modelled as applied at the   *)
(* place it is issued.  An async function runs synchronously up to its     *)
(* first await: one action is one such synchronous stretch.  The           *)
(* suspension points are the picker call, the file read, the RPC call and  *)
(* the await of uploadFile inside uploadAllPending.                        *)
(*                                                                         *)
(* Callers invoke the callbacks of the latest render, so the closure       *)
(* values of files and sessionId are the current ones at the call; a       *)
(* running batch keeps the uploadFile closure (and so the sessionId) it    *)
(* started with.                                                           *)
(***************************************************************************)
EXTENDS Integers, Sequences, FiniteSets, TLC

VARIABLES
    files,        \* useFileUpload.ts:31  the records, in order
    isUploading,  \* useFileUpload.ts:32
    sessionId,    \* useFileUpload.ts:30  the hook's argument at the latest render
    nextId,       \* number of ids generated so far + 1 (line 48 generates fresh ids)
    tasks,        \* the uploadFile invocations in flight, one per slot
    batches,      \* the uploadAllPending invocations in flight, one per slot
    last          \* history: the step taken last, with its inputs

vars == <<files, isUploading, sessionId, nextId, tasks, batches, last>>

----------------------------------------------------------------------------
\* Bounds of the model.

\* Records created over a run.
MaxIds == 2
\* Items one picker result holds at most.
MaxPick == 2
\* uploadFile invocations in flight at once.
MaxSlots == 2
\* uploadAllPending invocations in flight at once.
MaxBatches == 1
\* uploadAllPending invocations in flight at once, where calls overlap.
MaxOverlap == 2

Slots == 1..MaxSlots
\* The slots of the batch table, which the initial state sizes.
BatchSlots == DOMAIN batches

----------------------------------------------------------------------------
\* Values.

\* JavaScript's undefined, for the optional string fields.
Undefined == "<undefined>"
\* sessionId = null.
NoSession == "<null>"
Sessions == {"s1"}
\* JavaScript's null, as a returned value.
Null == "<null>"

\* What the document picker can return for one chosen item (result.assets[i]).
Assets == { [name |-> "a.txt", size |-> 1, uri |-> "file:///a"] }

\* The picker's result.assets: 1..MaxPick chosen items.
PickerResults == UNION { [1..n -> Assets] : n \in 1..MaxPick }

\* More of what the picker can return: two items of one name at different
\* places, one of them without a size (a negative number here), and an empty
\* file.
PickedAssets ==
    { [name |-> "a.txt", size |-> 1, uri |-> "file:///a"],
      [name |-> "a.txt", size |-> 0 - 1, uri |-> "file:///dir/a"],
      [name |-> "b.txt", size |-> 0, uri |-> "file:///b"] }

PickedResults == UNION { [1..n -> PickedAssets] : n \in 1..MaxPick }

\* What Date.now() and Math.random() make of line 48: any of a few strings,
\* numbered.  Nothing in the code tells two of them apart.
GeneratedIds == 1..MaxIds

\* UploadFileResponse (lines 23-28) as the RPC returns it; size is never read.
Responses ==
    { [kind |-> "response", success |-> TRUE,  path |-> "/x",      error |-> Undefined,
       isError |-> FALSE, message |-> Undefined],
      [kind |-> "response", success |-> FALSE, path |-> Undefined, error |-> "disk full",
       isError |-> FALSE, message |-> Undefined],
      [kind |-> "response", success |-> FALSE, path |-> Undefined, error |-> Undefined,
       isError |-> FALSE, message |-> Undefined],
      [kind |-> "response", success |-> FALSE, path |-> Undefined, error |-> "",
       isError |-> FALSE, message |-> Undefined] }

\* What a failed read or a rejected RPC throws: an Error carrying its
\* description, or a value that is no Error (reader.onerror = reject, line 92,
\* rejects with the reader's event).
Faults ==
    { [kind |-> "fault", success |-> FALSE, path |-> Undefined, error |-> Undefined,
       isError |-> TRUE,  message |-> "io failure"],
      [kind |-> "fault", success |-> FALSE, path |-> Undefined, error |-> Undefined,
       isError |-> FALSE, message |-> Undefined] }

NoOutcome ==
    [kind |-> "none", success |-> FALSE, path |-> Undefined, error |-> Undefined,
     isError |-> FALSE, message |-> Undefined]

IdleTask ==
    [phase |-> "idle", id |-> 0, fileName |-> "", uri |-> "", session |-> "", batch |-> 0]

IdleBatch ==
    [phase |-> "idle", list |-> <<>>, idx |-> 0, done |-> 0, session |-> "",
     awaiting |-> FALSE, fault |-> FALSE, overlapped |-> FALSE]

NoBatchInfo == [attempted |-> 0, len |-> 0, threw |-> FALSE]

Event(op, id, slot, out, info) ==
    [op |-> op, id |-> id, slot |-> slot, out |-> out, info |-> info]

----------------------------------------------------------------------------
\* Helpers over the record list.

Ids(fs) == { fs[i].id : i \in 1..Len(fs) }

RECURSIVE Filter(_, _)
\* Array.prototype.filter with a predicate given as the set of kept statuses.
Filter(fs, keep) ==
    IF fs = <<>> THEN <<>>
    ELSE IF Head(fs).status \in keep
         THEN <<Head(fs)>> \o Filter(Tail(fs), keep)
         ELSE Filter(Tail(fs), keep)

RECURSIVE RemoveId(_, _)
\* prev.filter(f => f.id !== fileId)
RemoveId(fs, id) ==
    IF fs = <<>> THEN <<>>
    ELSE IF Head(fs).id # id
         THEN <<Head(fs)>> \o RemoveId(Tail(fs), id)
         ELSE RemoveId(Tail(fs), id)

\* What uploadFile reads of its argument: file.id, file.uri, file.fileName.
Ref(f) == [id |-> f.id, fileName |-> f.fileName, uri |-> f.uri]

RefList(fs) == [i \in 1..Len(fs) |-> Ref(fs[i])]

----------------------------------------------------------------------------
\* The record updates of uploadFile.

\* { ...f, status: 'uploading' }  (line 73)
SetUploading(f) == [f EXCEPT !.status = "uploading"]

\* { ...f, status: 'success', remotePath: response.path }  (line 116)
SetSuccess(f, resp) == [f EXCEPT !.status = "success", !.remotePath = resp.path]

\* Mutant of ResponseError: response.error stored as it is, no fallback.
ResponseErrorRaw(resp) == resp.error

\* response.error || 'Upload failed'  (line 122): undefined and '' are falsy.
ResponseError(resp) ==
    IF resp.error \in {Undefined, ""} THEN "Upload failed" ELSE resp.error

\* Mutant of FaultMessage: error.message read of whatever was thrown.
FaultMessageRaw(fault) == fault.message

\* error instanceof Error ? error.message : 'Upload failed'  (line 130)
FaultMessage(fault) ==
    IF fault.isError THEN fault.message ELSE "Upload failed"

\* { ...f, status: 'error', error: msg }  (lines 122, 130)
SetError(f, msg) == [f EXCEPT !.status = "error", !.error = msg]

\* Mutant of Resolved: only the success branch updates the record.
ResolvedOnSuccessOnly(f, out) ==
    IF out.kind = "response" /\ out.success THEN SetSuccess(f, out) ELSE f

\* The record an outcome turns f into (lines 113-132).
Resolved(f, out) ==
    IF out.kind = "response"
    THEN IF out.success THEN SetSuccess(f, out) ELSE SetError(f, ResponseError(out))
    ELSE SetError(f, FaultMessage(out))

\* Mutant of MapResolved: a record that is not in the list is put back.
UpsertResolved(fs, id, out) ==
    IF id \in Ids(fs)
    THEN [i \in 1..Len(fs) |-> IF fs[i].id = id THEN Resolved(fs[i], out) ELSE fs[i]]
    ELSE Append(fs, Resolved([id |-> id, fileName |-> "", size |-> 0,
                              status |-> "uploading", error |-> Undefined,
                              remotePath |-> Undefined, uri |-> Undefined], out))

\* prev.map(f => f.id === file.id ? <update> : f) with the update of an outcome
\* (lines 114-118, 120-124, 128-132); a list without the id is mapped to itself.
MapResolved(fs, id, out) ==
    [i \in 1..Len(fs) |-> IF fs[i].id = id THEN Resolved(fs[i], out) ELSE fs[i]]

\* prev.map(f => f.id === file.id ? { ...f, status: 'uploading' } : f)
MapUploading(fs, id) ==
    [i \in 1..Len(fs) |-> IF fs[i].id = id THEN SetUploading(fs[i]) ELSE fs[i]]

\* Mutant of GuardPasses: the local handle is not looked at.
GuardSessionOnly(sess, ref) == sess # NoSession

\* The guard of uploadFile: if (!sessionId || !file.uri) return;
GuardPasses(sess, ref) == sess # NoSession /\ ref.uri \notin {Undefined, ""}

\* Mutant of Propagates: the fault is thrown on to the caller.
PropagatesFault(fault) == fault.kind = "fault"

\* The catch of uploadFile (lines 126-133) handles every fault of the read and
\* of the RPC and rethrows nothing: the promise uploadFile returns is never
\* rejected.
Propagates(fault) == FALSE

----------------------------------------------------------------------------
\* Slots.

IdleSlots == { s \in Slots : tasks[s].phase = "idle" }
\* The slot a new uploadFile invocation takes: the lowest idle one.
FreeSlot == CHOOSE s \in IdleSlots : \A t \in IdleSlots : s <= t

IdleBatchSlots == { b \in BatchSlots : batches[b].phase = "idle" }
FreeBatch == CHOOSE b \in IdleBatchSlots : \A c \in IdleBatchSlots : b <= c

InFlight == { s \in Slots : tasks[s].phase # "idle" }
Running == { b \in BatchSlots : batches[b].phase = "running" }

\* A batch whose awaited uploadFile has settled resumes in a microtask, which
\* runs before the event loop takes its next event: a user's call, the picker's
\* result, a read or an RPC completing.  Those happen while every running batch
\* waits for a transfer.
EventLoopIdle == \A b \in Running : batches[b].awaiting

NewTask(ref, sess, b) ==
    [phase |-> "read", id |-> ref.id, fileName |-> ref.fileName, uri |-> ref.uri,
     session |-> sess, batch |-> b]

----------------------------------------------------------------------------
Init ==
    /\ files = <<>>
    /\ isUploading = FALSE
    /\ sessionId \in Sessions \cup {NoSession}
    /\ nextId = 1
    /\ tasks = [s \in Slots |-> IdleTask]
    /\ batches = [b \in 1..MaxBatches |-> IdleBatch]
    /\ last = Event("init", 0, 0, NoOutcome, NoBatchInfo)

\* Mutant of SizeOrZero: the size taken as the picker gives it.
SizeRaw(size) == size

\* asset.size || 0  (line 50): undefined and 0 are falsy.  An asset without a
\* size carries a negative number here.
SizeOrZero(size) == IF size < 1 THEN 0 ELSE size

\* The record pickFiles builds of one picked item (lines 47-53).
NewFile(asset, id) ==
    [id |-> id, fileName |-> asset.name, size |-> SizeOrZero(asset.size),
     status |-> "pending",
     error |-> Undefined, remotePath |-> Undefined, uri |-> asset.uri]

\* result.assets.find(a => a.name === f.fileName)?.uri  (line 58): the uri of
\* the first picked item of that name.
FindUri(assets, name) ==
    IF \E k \in 1..Len(assets) : assets[k].name = name
    THEN assets[CHOOSE k \in 1..Len(assets) :
                   /\ assets[k].name = name
                   /\ \A j \in 1..(k - 1) : assets[j].name # name].uri
    ELSE Undefined

\* newFiles.map(f => ({ ...f, uri: <find> }))  (line 58): what pickFiles returns.
Returned(newFiles, assets) ==
    [kind |-> "list",
     list |-> [i \in 1..Len(newFiles) |->
                 [newFiles[i] EXCEPT !.uri = FindUri(assets, newFiles[i].fileName)]]]

\* Mutant of CancelResult: the cancelled call ends like a failed one.
CancelResultNull == [kind |-> "null", list |-> <<>>]

\* return;  (line 43): the call resolves with undefined.
CancelResult == [kind |-> "undefined", list |-> <<>>]

\* return null;  (line 61)
FailResult == [kind |-> "null", list |-> <<>>]

\* pickFiles, the picker returning the chosen items, the ids being the ones
\* line 48 generates (lines 35-58).
PickFilesWith(assets, ids) ==
    /\ EventLoopIdle
    /\ nextId + Len(assets) - 1 <= MaxIds
    /\ LET newFiles == [i \in 1..Len(assets) |-> NewFile(assets[i], ids[i])] IN
       /\ files' = files \o newFiles
       /\ last' = Event("pickFiles", 0, 0, NoOutcome,
                        [assets |-> assets, returned |-> Returned(newFiles, assets),
                         threw |-> FALSE])
    /\ nextId' = nextId + Len(assets)
    /\ UNCHANGED <<isUploading, sessionId, tasks, batches>>

\* pickFiles where every id generated is a new one.
PickFiles(assets) ==
    PickFilesWith(assets, [i \in 1..Len(assets) |-> nextId + i - 1])

\* pickFiles, the user cancelling the picker (lines 37-44).
PickCancel ==
    /\ EventLoopIdle
    /\ last' = Event("pickCancel", 0, 0, NoOutcome,
                     [assets |-> <<>>, returned |-> CancelResult, threw |-> FALSE])
    /\ UNCHANGED <<files, isUploading, sessionId, nextId, tasks, batches>>

\* Mutant of PickPropagates: the catch throws the fault on.
PickRethrows(fault) == TRUE

\* The catch of pickFiles (lines 59-62) logs the fault and returns: nothing is
\* thrown to the caller.
PickPropagates(fault) == FALSE

\* pickFiles, the picker call throwing (lines 36-37, 59-62).
PickFail(fault) ==
    /\ EventLoopIdle
    /\ last' = Event("pickFail", 0, 0, fault,
                     [assets |-> <<>>, returned |-> FailResult,
                      threw |-> PickPropagates(fault)])
    /\ UNCHANGED <<files, isUploading, sessionId, nextId, tasks, batches>>

\* uploadFile(file) called directly with the argument ref (lines 66-100, up to
\* the await of the read).
UploadFileOf(ref) ==
    /\ EventLoopIdle
    /\ IF GuardPasses(sessionId, ref)
       THEN /\ IdleSlots # {}
            /\ files' = MapUploading(files, ref.id)
            /\ tasks' = [tasks EXCEPT ![FreeSlot] = NewTask(ref, sessionId, 0)]
            /\ last' = Event("uploadFile", ref.id, 0, NoOutcome,
                             [uri |-> ref.uri, session |-> sessionId, threw |-> FALSE])
       ELSE /\ UNCHANGED <<files, tasks>>
            /\ last' = Event("uploadFileSkipped", ref.id, 0, NoOutcome,
                             [uri |-> ref.uri, session |-> sessionId, threw |-> FALSE])
    /\ UNCHANGED <<isUploading, sessionId, nextId, batches>>

\* uploadFile(file) called with a record of the Store.
UploadFile(i) ==
    /\ i \in 1..Len(files)
    /\ UploadFileOf(Ref(files[i]))

\* The promise of an uploadFile invocation settles: a batch awaiting it resumes.
Settle(t, rejected) ==
    IF t.batch = 0 THEN batches
    ELSE [batches EXCEPT ![t.batch].awaiting = FALSE,
                         ![t.batch].done = @ + 1,
                         ![t.batch].fault = rejected]

\* The read returns the content; the RPC is called with it (lines 97-111).
ReadOk(s) ==
    /\ EventLoopIdle
    /\ tasks[s].phase = "read"
    /\ tasks' = [tasks EXCEPT ![s].phase = "rpc"]
    /\ last' = Event("readOk", tasks[s].id, 0, NoOutcome, NoBatchInfo)
    /\ UNCHANGED <<files, isUploading, sessionId, nextId, batches>>

\* The read throws: the catch sets the record to error (lines 126-133).
ReadFail(s, fault) ==
    /\ EventLoopIdle
    /\ tasks[s].phase = "read"
    /\ files' = MapResolved(files, tasks[s].id, fault)
    /\ tasks' = [tasks EXCEPT ![s] = IdleTask]
    /\ batches' = Settle(tasks[s], Propagates(fault))
    /\ last' = Event("readFail", tasks[s].id, s, fault, NoBatchInfo)
    /\ UNCHANGED <<isUploading, sessionId, nextId>>

\* The RPC returns a response (lines 113-125).
RpcReturn(s, resp) ==
    /\ EventLoopIdle
    /\ tasks[s].phase = "rpc"
    /\ files' = MapResolved(files, tasks[s].id, resp)
    /\ tasks' = [tasks EXCEPT ![s] = IdleTask]
    /\ batches' = Settle(tasks[s], FALSE)
    /\ last' = Event("rpcReturn", tasks[s].id, s, resp, NoBatchInfo)
    /\ UNCHANGED <<isUploading, sessionId, nextId>>

\* The RPC rejects: the catch sets the record to error (lines 126-133).
RpcReject(s, fault) ==
    /\ EventLoopIdle
    /\ tasks[s].phase = "rpc"
    /\ files' = MapResolved(files, tasks[s].id, fault)
    /\ tasks' = [tasks EXCEPT ![s] = IdleTask]
    /\ batches' = Settle(tasks[s], Propagates(fault))
    /\ last' = Event("rpcReject", tasks[s].id, s, fault, NoBatchInfo)
    /\ UNCHANGED <<isUploading, sessionId, nextId>>

----------------------------------------------------------------------------
\* uploadAllPending.

\* The argument of uploadAllPending: no list, or the list of records the caller
\* holds: the Store's records as rendered, whatever their status.
FileListArgs ==
    { [given |-> FALSE, list |-> <<>>], [given |-> TRUE, list |-> files] }

\* Mutant of FilesToUpload: without a list, every record of the Store is taken.
FilesToUploadAll(arg) ==
    IF arg.given THEN arg.list ELSE files

\* fileList || files.filter(f => f.status === 'pending')  (line 138); an empty
\* array is truthy, so a given empty list stays the empty list.
FilesToUpload(arg) ==
    IF arg.given THEN arg.list ELSE Filter(files, {"pending"})

\* Mutant of CanContinue: the loop does not await uploadFile.
CanContinueEager(b) == TRUE

\* await uploadFile(...) (line 149): the loop goes on once the promise of the
\* current uploadFile invocation has settled.
CanContinue(b) == ~batches[b].awaiting

\* The loop body for item k of the batch bt in slot b (line 149): the call of
\* uploadFile runs up to its first await.  base is the batch table it updates.
CallUploadFile(base, b, bt, k) ==
    LET ref == bt.list[k] IN
    IF GuardPasses(bt.session, ref)
    THEN /\ IdleSlots # {}
         /\ files' = MapUploading(files, ref.id)
         /\ tasks' = [tasks EXCEPT ![FreeSlot] = NewTask(ref, bt.session, b)]
         /\ batches' = [base EXCEPT ![b] = [bt EXCEPT !.idx = k, !.awaiting = TRUE]]
    ELSE /\ UNCHANGED <<files, tasks>>
         /\ batches' = [base EXCEPT ![b] = [bt EXCEPT !.idx = k, !.done = @ + 1,
                                                      !.awaiting = FALSE]]

\* uploadAllPending(fileList) up to its first await (lines 137-149).
UploadAllPending(arg) ==
    LET list == FilesToUpload(arg) IN
    /\ EventLoopIdle
    /\ IF Len(list) = 0
       THEN /\ last' = Event("uploadAllEmpty", 0, 0, NoOutcome, NoBatchInfo)
            /\ UNCHANGED <<files, isUploading, sessionId, nextId, tasks, batches>>
       ELSE /\ IdleBatchSlots # {}
            /\ isUploading' = TRUE
            /\ LET bt == [phase |-> "running", list |-> RefList(list), idx |-> 0,
                          done |-> 0, session |-> sessionId, awaiting |-> FALSE,
                          fault |-> FALSE, overlapped |-> Running # {}]
                   \* history: the batches this call overlaps
                   marked == [c \in BatchSlots |->
                                IF c \in Running
                                THEN [batches[c] EXCEPT !.overlapped = TRUE]
                                ELSE batches[c]]
               IN CallUploadFile(marked, FreeBatch, bt, 1)
            /\ last' = Event(IF arg.given THEN "uploadAllPendingList"
                                          ELSE "uploadAllPending",
                             0, 0, NoOutcome, NoBatchInfo)
            /\ UNCHANGED <<sessionId, nextId>>

\* Mutant of FinallyClears: the flag is cleared only when every record of the
\* batch ended in success.
FinallyClearsOnSuccess(bt) ==
    \A k \in 1..Len(bt.list) : \A i \in 1..Len(files) :
        files[i].id = bt.list[k].id => files[i].status = "success"

\* finally { setIsUploading(false) }  (lines 151-153): whatever the loop did.
FinallyClears(bt) == TRUE

\* uploadAllPending resuming after an await of uploadFile (lines 148-153): the
\* next item, or the end of the loop (or a rejected await) and the finally.
BatchContinue(b) ==
    LET bt == batches[b] IN
    /\ bt.phase = "running"
    /\ CanContinue(b)
    /\ IF bt.fault \/ bt.idx >= Len(bt.list)
       THEN /\ isUploading' = (IF FinallyClears(bt) THEN FALSE ELSE isUploading)
            /\ batches' = [batches EXCEPT ![b] = IdleBatch]
            /\ last' = Event("batchDone", 0, 0, NoOutcome,
                             [attempted |-> bt.idx, len |-> Len(bt.list),
                              threw |-> bt.fault])
            /\ UNCHANGED <<files, tasks>>
       ELSE /\ CallUploadFile(batches, b, bt, bt.idx + 1)
            /\ last' = Event("batchNext", bt.list[bt.idx + 1].id, 0, NoOutcome, NoBatchInfo)
            /\ UNCHANGED isUploading
    /\ UNCHANGED <<sessionId, nextId>>

----------------------------------------------------------------------------
\* Removal.

\* removeFile(fileId) (lines 157-159), for any id, held by the Store or not.
RemoveFile(id) ==
    /\ EventLoopIdle
    /\ files' = RemoveId(files, id)
    /\ last' = Event("removeFile", id, 0, NoOutcome, NoBatchInfo)
    /\ UNCHANGED <<isUploading, sessionId, nextId, tasks, batches>>

\* clearFiles() (lines 162-164)
ClearFiles ==
    /\ EventLoopIdle
    /\ files' = <<>>
    /\ last' = Event("clearFiles", 0, 0, NoOutcome, NoBatchInfo)
    /\ UNCHANGED <<isUploading, sessionId, nextId, tasks, batches>>

\* Mutant of KeptStatuses: only the records not yet started are kept.
KeptPendingOnly == {"pending"}

\* f.status === 'pending' || f.status === 'uploading'  (line 168)
KeptStatuses == {"pending", "uploading"}

\* clearCompleted() (lines 167-169)
ClearCompleted ==
    /\ EventLoopIdle
    /\ files' = Filter(files, KeptStatuses)
    /\ last' = Event("clearCompleted", 0, 0, NoOutcome, NoBatchInfo)
    /\ UNCHANGED <<isUploading, sessionId, nextId, tasks, batches>>

----------------------------------------------------------------------------
Next ==
    \/ \E r \in PickerResults : PickFiles(r)
    \/ \E i \in 1..MaxIds : UploadFile(i)
    \/ \E arg \in FileListArgs : UploadAllPending(arg)
    \/ \E b \in BatchSlots : BatchContinue(b)
    \/ \E s \in Slots : ReadOk(s)
    \/ \E s \in Slots, f \in Faults : ReadFail(s, f)
    \/ \E s \in Slots, r \in Responses : RpcReturn(s, r)
    \/ \E s \in Slots, f \in Faults : RpcReject(s, f)
    \/ \E id \in 1..MaxIds : RemoveFile(id)
    \/ ClearFiles
    \/ ClearCompleted

Spec == Init /\ [][Next]_vars

\* One step of the transfer in slot s: its read or its RPC returns or throws.
TaskStep(s) ==
    \/ ReadOk(s)
    \/ \E fault \in Faults : ReadFail(s, fault)
    \/ \E resp \in Responses : RpcReturn(s, resp)
    \/ \E fault \in Faults : RpcReject(s, fault)

\* The file read and the RPC each return or throw, so no transfer waits
\* forever, whatever else goes on meanwhile; a resumed batch runs at once.
FairSpec ==
    /\ Spec
    /\ WF_vars(\E b \in BatchSlots : BatchContinue(b))
    /\ \A s \in 1..MaxSlots : SF_vars(TaskStep(s))

----------------------------------------------------------------------------
\* The hook with overlapping uploadAllPending calls.

InitOverlap ==
    /\ files = <<>>
    /\ isUploading = FALSE
    /\ sessionId \in Sessions \cup {NoSession}
    /\ nextId = 1
    /\ tasks = [s \in Slots |-> IdleTask]
    /\ batches = [b \in 1..MaxOverlap |-> IdleBatch]
    /\ last = Event("init", 0, 0, NoOutcome, NoBatchInfo)

NextOverlap ==
    \/ \E r \in PickerResults : PickFiles(r)
    \/ \E arg \in FileListArgs : UploadAllPending(arg)
    \/ \E b \in BatchSlots : BatchContinue(b)
    \/ \E s \in Slots : ReadOk(s)
    \/ \E s \in Slots, f \in Faults : ReadFail(s, f)
    \/ \E s \in Slots, r \in Responses : RpcReturn(s, r)
    \/ \E s \in Slots, f \in Faults : RpcReject(s, f)
    \/ \E id \in 1..MaxIds : RemoveFile(id)

SpecOverlap == InitOverlap /\ [][NextOverlap]_vars

----------------------------------------------------------------------------
\* The hook as the attachment list drives it (FileAttachment.tsx): retry is
\* offered on error records, remove on records that are not uploading; upload-all
\* is the call without a list, made while no batch is in progress.

\* onRetry(file), shown when file.status === 'error' (FileAttachment.tsx:60-71).
RetryUI(i) ==
    /\ i \in 1..Len(files)
    /\ files[i].status = "error"
    /\ UploadFile(i)

\* onRemove(file.id), shown when file.status !== 'uploading'
\* (FileAttachment.tsx:72-83).
RemoveUI(i) ==
    /\ i \in 1..Len(files)
    /\ files[i].status # "uploading"
    /\ RemoveFile(files[i].id)

\* requestUploadAll: uploadAllPending() without a list, gated on the in-progress
\* flag as the callers are required to.
UploadAllUI ==
    /\ ~isUploading
    /\ UploadAllPending([given |-> FALSE, list |-> <<>>])

NextUI ==
    \/ \E r \in PickerResults : PickFiles(r)
    \/ UploadAllUI
    \/ \E i \in 1..MaxIds : RetryUI(i)
    \/ \E i \in 1..MaxIds : RemoveUI(i)
    \/ \E b \in BatchSlots : BatchContinue(b)
    \/ \E s \in Slots : ReadOk(s)
    \/ \E s \in Slots, f \in Faults : ReadFail(s, f)
    \/ \E s \in Slots, r \in Responses : RpcReturn(s, r)
    \/ \E s \in Slots, f \in Faults : RpcReject(s, f)

SpecUI == Init /\ [][NextUI]_vars

----------------------------------------------------------------------------
\* The Selector alone: pickFiles with every outcome of the picker and every id
\* line 48 can generate, and removeFile.

NextPick ==
    \/ \E r \in PickedResults : \E ids \in [1..Len(r) -> GeneratedIds] :
          PickFilesWith(r, ids)
    \/ PickCancel
    \/ \E f \in Faults : PickFail(f)
    \/ \E id \in 1..MaxIds : RemoveFile(id)

SpecPick == Init /\ [][NextPick]_vars

----------------------------------------------------------------------------
\* The hook across renders with another sessionId, and uploadFile called with
\* records that carry no uri.

\* The session identifiers the hook is rendered with.
SwitchSessions == {"s1", "s2"}

InitSession ==
    /\ files = <<>>
    /\ isUploading = FALSE
    /\ sessionId \in SwitchSessions \cup {NoSession}
    /\ nextId = 1
    /\ tasks = [s \in Slots |-> IdleTask]
    /\ batches = [b \in 1..MaxBatches |-> IdleBatch]
    /\ last = Event("init", 0, 0, NoOutcome, NoBatchInfo)

\* useFileUpload(sess) rendered with another argument (line 30): the state of
\* lines 31-32 is kept, and uploadFile is rebuilt with sess (line 134).
SetSession(sess) ==
    /\ EventLoopIdle
    /\ sess # sessionId
    /\ sessionId' = sess
    /\ last' = Event("setSession", 0, 0, NoOutcome, NoBatchInfo)
    /\ UNCHANGED <<files, isUploading, nextId, tasks, batches>>

\* What a caller passes to uploadFile: a record of the Store as pickFiles made
\* it, or the record without its uri (UploadedFile declares none, lines 14-21).
UploadArgs ==
    { Ref(files[i]) : i \in 1..Len(files) }
       \cup { [Ref(files[i]) EXCEPT !.uri = Undefined] : i \in 1..Len(files) }

NextSession ==
    \/ \E r \in PickerResults : PickFiles(r)
    \/ \E ref \in UploadArgs : UploadFileOf(ref)
    \/ \E sess \in SwitchSessions \cup {NoSession} : SetSession(sess)
    \/ \E s \in Slots : ReadOk(s)
    \/ \E s \in Slots, f \in Faults : ReadFail(s, f)
    \/ \E s \in Slots, r \in Responses : RpcReturn(s, r)
    \/ \E s \in Slots, f \in Faults : RpcReject(s, f)

SpecSession == InitSession /\ [][NextSession]_vars

----------------------------------------------------------------------------
\* formatFileSize (lines 184-190), on byte counts, which are whole numbers.

\* Byte counts from 0 to MaxBytes are formatted, and the ones of LargeSizes.
MaxBytes == 1100

\* const k = 1024;  (line 186)
k == 1024

\* const sizes = ['B', 'KB', 'MB', 'GB'];  (line 187)
sizes == <<"B", "KB", "MB", "GB">>

LargeSizes == {1536, 10189, 1048575, 1048576, 1572864, 1073741824}

FormatInputs == (0..MaxBytes) \cup LargeSizes

RECURSIVE Pow(_, _)
\* Math.pow(k, i) for whole numbers.
Pow(base, i) == IF i = 0 THEN 1 ELSE base * Pow(base, i - 1)

RECURSIVE FloorLog(_, _)
\* Math.floor(Math.log(bytes) / Math.log(k))  (line 188), bytes >= 1: the
\* largest i with k^i <= bytes, counted up from i.
FloorLog(bytes, i) ==
    IF bytes \div Pow(k, i) >= k THEN FloorLog(bytes, i + 1) ELSE i

\* (bytes / Math.pow(k, i)).toFixed(1)  (line 189), as a number of tenths: the
\* quotient rounded to one decimal, a half rounded up.
ToFixed1(bytes, i) ==
    LET unit == Pow(k, i) IN
    (bytes \div unit) * 10 + (((bytes % unit) * 10 + unit \div 2) \div unit)

\* parseFloat(<tenths>.toFixed(1)) + ''  (line 189): the number written as
\* JavaScript writes it, a fraction .0 not written.
NumberText(tenths) ==
    IF tenths % 10 = 0
    THEN ToString(tenths \div 10)
    ELSE ToString(tenths \div 10) \o "." \o ToString(tenths % 10)

\* sizes[i]  (line 189), i counted from 0: undefined past the end.
SizeName(i) == IF i + 1 \in DOMAIN sizes THEN sizes[i + 1] ELSE "undefined"

formatFileSize(bytes) ==
    IF bytes = 0 THEN "0 B"
    ELSE LET i == FloorLog(bytes, 0) IN
         NumberText(ToFixed1(bytes, i)) \o " " \o SizeName(i)

\* A call of formatFileSize and what it returns.
FormatFileSize(bytes) ==
    /\ last' = Event("formatFileSize", 0, 0, NoOutcome,
                     [bytes |-> bytes, text |-> formatFileSize(bytes)])
    /\ UNCHANGED <<files, isUploading, sessionId, nextId, tasks, batches>>

NextFormat == \E bytes \in FormatInputs : FormatFileSize(bytes)

SpecFormat == Init /\ [][NextFormat]_vars

----------------------------------------------------------------------------
\* Properties.

\* The steps in which an uploadFile invocation commits its record's final status.
ResolveOps == {"readFail", "rpcReturn", "rpcReject"}

\* The uploadFile invocations in flight that batch b started.
TasksOf(b) == { s \in Slots : tasks[s].phase # "idle" /\ tasks[s].batch = b }

\* The positions of the Store's records with the given id.
At(id) == { i \in 1..Len(files) : files[i].id = id }

\* C1: whatever the interleaving of the hook's operations, a record's status
\* changes only along pending->uploading, uploading->success, uploading->error
\* and error->uploading; a record in success never changes status again.
C1_StatusMoves ==
    [][\A i \in 1..Len(files) : \A j \in 1..Len(files') :
         files[i].id = files'[j].id =>
            \/ files'[j].status = files[i].status
            \/ <<files[i].status, files'[j].status>> \in
                  { <<"pending", "uploading">>, <<"uploading", "success">>,
                    <<"uploading", "error">>, <<"error", "uploading">> }]_vars

\* C2: every uploadFile invocation that set its record to uploading comes to an
\* end, and at its end the record (if still held) is in success or in error; a
\* record in uploading always has a transfer in flight, so none stays in
\* uploading once the transfers started have finished.
C2_TransferResolves ==
    /\ [](\A i \in 1..Len(files) :
            files[i].status = "uploading" =>
                \E s \in InFlight : tasks[s].id = files[i].id)
    /\ [](last.op \in ResolveOps =>
            \A i \in At(last.id) : files[i].status \in {"success", "error"})
    /\ \A s \in 1..MaxSlots : (tasks[s].phase # "idle") ~> (tasks[s].phase = "idle")

\* C2 witness: a transfer has just resolved its record and none is in flight.
C2_Witness ==
    /\ last.op \in ResolveOps
    /\ At(last.id) # {}
    /\ InFlight = {}

\* C3: within one batch the transfers are issued in list order, one at a time:
\* the batch has at most one uploadFile invocation in flight, it is the one of
\* the item the loop is at, and every earlier item has settled (its final
\* status committed) before it started.
C3_BatchSequential ==
    \A b \in Running :
        LET bt == batches[b] IN
        /\ Cardinality(TasksOf(b)) <= 1
        /\ \A s \in TasksOf(b) : bt.awaiting /\ tasks[s].id = bt.list[bt.idx].id
        /\ bt.awaiting => TasksOf(b) # {}
        /\ bt.idx \in 1..Len(bt.list)
        /\ bt.done = (IF bt.awaiting THEN bt.idx - 1 ELSE bt.idx)

\* C3 witness: the batch transfers its second record, the first one resolved.
C3_Witness ==
    \E b \in Running :
        /\ batches[b].idx = 2
        /\ batches[b].done = 1
        /\ TasksOf(b) # {}
        /\ \E i \in At(batches[b].list[1].id) : files[i].status \in {"success", "error"}

\* C4: a failed read, a failure response or a rejected RPC never leaves
\* uploadFile as a fault and never ends the batch early: the batch ends having
\* called uploadFile for every record of its list, and a record's status after
\* its transfer is the one of its own outcome.
C4_FailuresContained ==
    /\ \A b \in Running : ~batches[b].fault
    /\ last.op = "batchDone" =>
          ~last.info.threw /\ last.info.attempted = last.info.len
    /\ last.op \in ResolveOps =>
          \A i \in At(last.id) :
              files[i].status =
                 (IF last.op = "rpcReturn" /\ last.out.success THEN "success" ELSE "error")

\* C4 witness: a batch of two ends, its first record failed, its second succeeded.
C4_Witness ==
    /\ last.op = "batchDone"
    /\ last.info.len = 2
    /\ Len(files) = 2
    /\ files[1].status = "error"
    /\ files[2].status = "success"

\* C5 as stated: while an uploadAllPending call with a non-empty list runs,
\* isUploading is true.
C5_FlagWhileRunning == \A b \in Running : isUploading

\* C5 amended: while an uploadAllPending call with a non-empty list runs and no
\* other call has overlapped it, isUploading is true; it is false right after a
\* call completes, and whenever no call is running (a call with an empty list
\* does not set it).
C5_FlagWhileRunningAlone ==
    /\ \A b \in Running : ~batches[b].overlapped => isUploading
    /\ last.op = "batchDone" => ~isUploading
    /\ Running = {} => ~isUploading

\* C5 witness: a call that nothing overlapped transfers its second record.
C5_Witness ==
    \E b \in Running :
        /\ ~batches[b].overlapped
        /\ batches[b].idx = 2
        /\ TasksOf(b) # {}
        /\ isUploading

\* C6: a record has an error message only in status error and a remotePath only
\* in status success, and never both.
C6_FieldsMatchStatus ==
    \A i \in 1..Len(files) :
        /\ files[i].error # Undefined => files[i].status = "error"
        /\ files[i].remotePath # Undefined => files[i].status = "success"
        /\ ~(files[i].error # Undefined /\ files[i].remotePath # Undefined)

\* C7: under upload-all, retry on error records and remove on records that are
\* not uploading, at most one transfer is in flight at any time, and no record
\* has two transfers in flight.
C7_OneTransferAtATime ==
    /\ Cardinality(InFlight) <= 1
    /\ \A s, t \in InFlight : s # t => tasks[s].id # tasks[t].id

\* C8: the status uploadFile resolves to is the one of the RPC's outcome:
\* success=true with path p gives success with remotePath p; success=false gives
\* error with the response's error text, "Upload failed" when there is none; a
\* rejected call gives error with the fault's message ("Upload failed" when the
\* fault is no Error and so has none).
C8_OutcomeDecidesRecord ==
    \A i \in At(last.id) :
        /\ last.op = "rpcReturn" /\ last.out.success =>
              files[i].status = "success" /\ files[i].remotePath = last.out.path
        /\ last.op = "rpcReturn" /\ ~last.out.success =>
              /\ files[i].status = "error"
              /\ files[i].error =
                    (IF last.out.error \in {Undefined, ""}
                     THEN "Upload failed" ELSE last.out.error)
        /\ last.op = "rpcReject" =>
              /\ files[i].status = "error"
              /\ files[i].error =
                    (IF last.out.isError THEN last.out.message ELSE "Upload failed")

\* C8 witness: the RPC answered success=false without an error text.
C8_Witness ==
    /\ last.op = "rpcReturn"
    /\ ~last.out.success
    /\ last.out.error = Undefined
    /\ At(last.id) # {}

C10_AbsentIdChangesNothing ==
    [][/\ last'.op = "removeFile" /\ last'.id \notin Ids(files) =>
             UNCHANGED <<files, isUploading, tasks, batches>>
       /\ last'.op \in ResolveOps =>
             /\ Len(files') = Len(files)
             /\ \A i \in 1..Len(files) :
                   files[i].id # last'.id => files'[i] = files[i]]_vars

\* C10 witness: a transfer resolved after its record was removed, another
\* record being held.
C10_Witness ==
    /\ last.op \in ResolveOps
    /\ last.id \notin Ids(files)
    /\ files # <<>>

\* C11: after pickFiles returns with N picked items the Store holds its
\* previous records, unchanged and in order, followed by N new records in picker
\* order, each pending, with the picker's name and size (0 when the item has no
\* size).
C11_PickAppends ==
    [][last'.op = "pickFiles" =>
         LET assets == last'.info.assets IN
         /\ Len(files') = Len(files) + Len(assets)
         /\ \A i \in 1..Len(files) : files'[i] = files[i]
         /\ \A n \in 1..Len(assets) :
               LET f == files'[Len(files) + n] IN
               /\ f.status = "pending"
               /\ f.fileName = assets[n].name
               /\ f.size = (IF assets[n].size < 0 THEN 0 ELSE assets[n].size)]_vars

\* C11 witness: one item without a size was picked into a Store holding a record.
C11_Witness ==
    /\ last.op = "pickFiles"
    /\ Len(last.info.assets) = 1
    /\ last.info.assets[1].size < 0
    /\ Len(files) = 2
    /\ files[2].size = 0

\* C12: the ids of the records the Store holds are pairwise distinct.
C12_IdsDistinct ==
    \A i, j \in 1..Len(files) : i # j => files[i].id # files[j].id

\* C13: when the user cancels the picker, pickFiles returns nothing (undefined,
\* no record) and the Store's records and flag are as they were.
C13_CancelChangesNothing ==
    [][last'.op = "pickCancel" =>
         /\ last'.info.returned.kind = "undefined"
         /\ last'.info.returned.list = <<>>
         /\ ~last'.info.threw
         /\ UNCHANGED <<files, isUploading>>]_vars

\* C13 witness: the picker was cancelled with a record in the Store.
C13_Witness ==
    /\ last.op = "pickCancel"
    /\ files # <<>>

C20_ReturnedUriOfOwnItem ==
    last.op = "pickFiles" =>
        /\ Len(last.info.returned.list) = Len(last.info.assets)
        /\ \A n \in 1..Len(last.info.assets) :
              last.info.returned.list[n].uri = last.info.assets[n].uri

\* C15: clearCompleted removes every record in success or error and keeps every
\* pending or uploading record, unchanged and in the same relative order; it
\* leaves the transfers in flight alone, and a transfer that resolves sets the
\* record it belongs to, if held, to success or error.
C15_ClearCompletedKeeps ==
    [][/\ last'.op = "clearCompleted" =>
             LET kept == { i \in 1..Len(files) :
                             files[i].status \in {"pending", "uploading"} } IN
             /\ Len(files') = Cardinality(kept)
             /\ \A i \in kept :
                   files'[Cardinality({ j \in kept : j <= i })] = files[i]
             /\ UNCHANGED <<tasks, batches, isUploading>>
       /\ last'.op \in ResolveOps /\ last.op = "clearCompleted" =>
             \A i \in 1..Len(files') :
                files'[i].id = last'.id => files'[i].status \in {"success", "error"}]_vars

\* C15 witness: clearCompleted has removed the first record and kept the second,
\* which a transfer in flight is uploading.
C15_Witness ==
    /\ last.op = "clearCompleted"
    /\ Len(files) = 1
    /\ files[1].id = 2
    /\ files[1].status = "uploading"
    /\ \E s \in InFlight : tasks[s].id = 2

C16_SwitchClearsStore ==
    [][(sessionId # NoSession /\ sessionId' # NoSession /\ sessionId' # sessionId)
          => files' = <<>>]_vars

\* C18: uploadFile called with a null session or with a record without a local
\* handle does nothing: the Store and the transfers are as before, no read and no
\* RPC is started, nothing is thrown; every transfer in flight has a session and
\* a local handle.
C18_GuardedNoOp ==
    /\ [](\A s \in InFlight :
            tasks[s].session # NoSession /\ tasks[s].uri \notin {Undefined, ""})
    /\ [][(/\ last'.op \in {"uploadFile", "uploadFileSkipped"}
           /\ \/ last'.info.session = NoSession
              \/ last'.info.uri \in {Undefined, ""})
          => /\ last'.op = "uploadFileSkipped"
             /\ ~last'.info.threw
             /\ UNCHANGED <<files, isUploading, sessionId, tasks, batches>>]_vars

\* C18 witness: with a session, uploadFile was called with a record without uri.
C18_Witness ==
    /\ last.op = "uploadFileSkipped"
    /\ last.info.uri = Undefined
    /\ last.info.session # NoSession
    /\ files # <<>>

\* C19: formatFileSize gives "0 B" for 0 and otherwise the magnitude with one
\* decimal place and the unit of index floor(log_1024(bytes)); so "1.0 KB" for
\* 1024, "1.5 KB" for 1536 and "1.0 MB" for 1048576.
C19_OneDecimalPlace ==
    last.op = "formatFileSize" =>
        LET bytes == last.info.bytes
            i == CHOOSE n \in 0..3 :
                    Pow(1024, n) <= bytes /\ (n < 3 => bytes < Pow(1024, n + 1))
            tenths == CHOOSE t \in 0..10240 :
                    /\ 2 * t * Pow(1024, i) <= 20 * bytes + Pow(1024, i)
                    /\ 20 * bytes + Pow(1024, i) < 2 * (t + 1) * Pow(1024, i)
        IN  /\ bytes = 0 => last.info.text = "0 B"
            /\ bytes = 1024 => last.info.text = "1.0 KB"
            /\ bytes = 1536 => last.info.text = "1.5 KB"
            /\ bytes = 1048576 => last.info.text = "1.0 MB"
            /\ (bytes > 0 /\ bytes <= MaxBytes) =>
                  last.info.text =
                     ToString(tenths \div 10) \o "." \o ToString(tenths % 10)
                        \o " " \o <<"B", "KB", "MB", "GB">>[i + 1]

====
